---- MODULE Spec2Model ----
(***************************************************************************)
(* Model of the two exercise modules of effective_pyspark_ws:              *)
(*   exercises/a_spark_demo/f_common_business_logic_methods.py             *)
(*       ranges_overlap, a null-aware interval overlap column expression   *)
(*   exercises/c_labellers/dates_solution.py                               *)
(*       label_weekend, label_holidays, label_holidays2, label_holidays3   *)
(*                                                                         *)
(* A nullable SQL value is a sequence of length at most one: <<>> is null  *)
(* and <<v>> is the value v.  A DataFrame is a record of its column names  *)
(* (in order) and the bag of its rows; a row is the sequence of its cells. *)
(***************************************************************************)
EXTENDS Integers, Sequences, FiniteSets, Bags, TLC

VARIABLES start1, stop1, start2, stop2, overlaps, mirrored, evaluated,
          frame, labelled, calls, raised

rangeVars == <<start1, stop1, start2, stop2, overlaps, mirrored, evaluated>>
labelVars == <<frame, labelled, calls, raised>>
vars == <<start1, stop1, start2, stop2, overlaps, mirrored, evaluated,
          frame, labelled, calls, raised>>

----------------------------------------------------------------------------
(* Bounds of the model *)

MaxVal == 2
MaxRows == 2
MaxId == 2
MaxCalls == 2

----------------------------------------------------------------------------
(* Nullable values and SQL three-valued logic *)

None == <<>>

Some(v) == <<v>>

lit(v) == Some(v)

\* the comparison taken as "not before" instead of "after"
Gt_orEqual(x, y) == IF x = None \/ y = None THEN None ELSE Some(x[1] >= y[1])

\* Column.__gt__ : null if either operand is null
Gt(x, y) == IF x = None \/ y = None THEN None ELSE Some(x[1] > y[1])

\* the comparison taken as "not after" instead of "before"
Lt_orEqual(x, y) == IF x = None \/ y = None THEN None ELSE Some(x[1] <= y[1])

\* Column.__lt__ : null if either operand is null
Lt(x, y) == IF x = None \/ y = None THEN None ELSE Some(x[1] < y[1])

\* a disjunction that gives up as soon as its left operand is null
Or3_leftNull(p, q) ==
    IF p = None THEN None
    ELSE IF p = Some(TRUE) \/ q = Some(TRUE) THEN Some(TRUE)
    ELSE IF q = None THEN None
    ELSE Some(FALSE)

\* Column.__or__ : null | True == True, null | False == null, null | null == null
Or3(p, q) ==
    IF p = Some(TRUE) \/ q = Some(TRUE) THEN Some(TRUE)
    ELSE IF p = None \/ q = None THEN None
    ELSE Some(FALSE)

\* Column.__invert__ : ~null == null
Not3(p) == IF p = None THEN None ELSE Some(~p[1])

\* psf.coalesce : the first non-null value of a sequence of columns
RECURSIVE coalesce(_)
coalesce(columns) ==
    IF columns = <<>> THEN None
    ELSE IF Head(columns) # None THEN Head(columns)
    ELSE coalesce(Tail(columns))

\* the comparison without the coalesce around it
ranges_overlap_uncoalesced(s1, e1, s2, e2) ==
    Not3(Or3(Gt(s1, e2), Lt(e1, s2)))

ranges_overlap(s1, e1, s2, e2) ==
    coalesce(<<Not3(Or3(Gt(s1, e2), Lt(e1, s2))), lit(TRUE)>>)

----------------------------------------------------------------------------
(* The literals of the demonstration table, and the argument values tried *)

TableRows ==
    { <<Some(0), Some(5), Some(-5), Some(-1)>>,
      <<Some(0), Some(5), Some(-5), Some(2)>>,
      <<Some(0), Some(5), Some(-5), Some(7)>>,
      <<Some(0), Some(5), Some(1), Some(7)>>,
      <<Some(0), Some(5), Some(6), Some(7)>>,
      <<Some(0), Some(5), Some(2), Some(3)>>,
      <<Some(0), Some(5), Some(-5), None>>,
      <<Some(0), Some(5), Some(1), None>>,
      <<Some(0), Some(5), Some(6), None>>,
      <<Some(0), None, Some(-5), Some(-1)>>,
      <<Some(0), None, Some(-5), Some(1)>>,
      <<Some(0), None, Some(5), Some(10)>> }

TableLiterals == { -5, -1, 0, 1, 2, 3, 5, 6, 7, 10 }

Bounds == { Some(v) : v \in TableLiterals \cup (-MaxVal .. MaxVal) } \cup { None }

----------------------------------------------------------------------------
(* Dates.  A DateType value is the number of days since 1970-01-01, which  *)
(* is how the engine stores it; datetime.date(y, m, d) converts to it.     *)

date(y, m, d) ==
    LET yy  == IF m <= 2 THEN y - 1 ELSE y
        era == yy \div 400
        yoe == yy - era * 400
        mp  == IF m > 2 THEN m - 3 ELSE m + 9
        doy == (153 * mp + 2) \div 5 + d - 1
        doe == yoe * 365 + yoe \div 4 - yoe \div 100 + doy
    IN  era * 146097 + doe - 719468

\* datetime.date.year of a day number
year(days) ==
    LET z   == days + 719468
        era == z \div 146097
        doe == z - era * 146097
        yoe == (doe - doe \div 1460 + doe \div 36524 - doe \div 146096) \div 365
        doy == doe - (365 * yoe + yoe \div 4 - yoe \div 100)
        mp  == (5 * doy + 2) \div 153
        m   == IF mp < 10 THEN mp + 3 ELSE mp - 9
    IN  yoe + era * 400 + (IF m <= 2 THEN 1 ELSE 0)

\* pyspark.sql.functions.dayofweek : 1 = Sunday, ..., 7 = Saturday; null for null
dayofweek(c) == IF c = None THEN None ELSE Some(((c[1] + 4) % 7) + 1)

\* Column.isin(values) for a list of non-null values : null for null
isin(c, values) == IF c = None THEN None ELSE Some(c[1] \in values)

\* Easter Sunday of year y (Gregorian computus), as used by holidays.BE
easter(y) ==
    LET a == y % 19
        b == y \div 100
        c == y % 100
        d == b \div 4
        e == b % 4
        f == (b + 8) \div 25
        g == (b - f + 1) \div 3
        h == (19 * a + b - d - g + 15) % 30
        i == c \div 4
        k == c % 4
        l == (32 + 2 * e + 2 * i - h - k) % 7
        m == (a + 11 * h + 22 * l) \div 451
        n == h + l - 7 * m + 114
    IN  date(y, n \div 31, (n % 31) + 1)

\* holidays.BE(years=ys).keys() : the Belgian public holidays of the years ys
BE(ys) ==
    UNION { { date(y, 1, 1), easter(y), easter(y) + 1, date(y, 5, 1),
              easter(y) + 39, easter(y) + 49, easter(y) + 50,
              date(y, 7, 21), date(y, 8, 15), date(y, 11, 1),
              date(y, 11, 11), date(y, 12, 25) } : y \in ys }

\* holidays.BE() populates the year of the date that is looked up
is_belgian_holiday(d) == d \in BE({ year(d) })

\* the years taken up to and including 2020
HolidayYears_inclusive == 2015 .. 2020

\* range(2015, 2020)
HolidayYears == { y \in 2015 .. 2020 : y < 2020 }

\* holidays.BE(years=list(range(2015, 2020)))
holidays_be == BE(HolidayYears)

----------------------------------------------------------------------------
(* DataFrames *)

RECURSIVE SumOf(_, _)
SumOf(f, S) ==
    IF S = {} THEN 0
    ELSE LET x == CHOOSE x \in S : TRUE IN f[x] + SumOf(f, S \ { x })

\* the bag of g[x] for the elements x of bag B
BagMap(g, B) ==
    [ o \in { g[x] : x \in DOMAIN B } |->
        SumOf(B, { x \in DOMAIN B : g[x] = o }) ]

Positions(cols, name) == { i \in 1 .. Len(cols) : cols[i] = name }

\* frame[name] : the cell of a row in the column called name
Cell(f, row, name) == row[CHOOSE i \in Positions(f.cols, name) : TRUE]

\* DataFrame.withColumn : replaces the column of that name, or appends it;
\* expr gives the value of the column expression for every row
withColumn(f, name, expr) ==
    IF Positions(f.cols, name) # {}
    THEN [ cols |-> f.cols,
           rows |-> BagMap([ r \in DOMAIN f.rows |->
                               [ i \in 1 .. Len(r) |->
                                   IF f.cols[i] = name THEN expr[r] ELSE r[i] ] ],
                           f.rows) ]
    ELSE [ cols |-> Append(f.cols, name),
           rows |-> BagMap([ r \in DOMAIN f.rows |-> Append(r, expr[r]) ], f.rows) ]

\* the cells of a row outside the column called name, in order
RECURSIVE Without(_, _, _)
Without(cols, row, name) ==
    IF cols = <<>> THEN <<>>
    ELSE IF Head(cols) = name THEN Without(Tail(cols), Tail(row), name)
    ELSE <<Head(row)>> \o Without(Tail(cols), Tail(row), name)

\* DataFrame.join(other, on=name, how="left") : the join column first, then
\* the other columns of the left frame, then the other columns of the right
\* frame; a left row without a match (a null key matches nothing) is kept
\* with nulls for the right columns.
join_left(left, right, name) ==
    LET rest(f)   == Without(f.cols, f.cols, name)
        nulls     == [ i \in 1 .. Len(rest(right)) |-> None ]
        key(f, r) == Cell(f, r, name)
        hit(l, r) == key(left, l) # None /\ key(left, l) = key(right, r)
        matches(l) == { r \in DOMAIN right.rows : hit(l, r) }
        pairs     == UNION { IF matches(l) = {} THEN { <<l, <<>>>> }
                             ELSE { <<l, r>> : r \in matches(l) } :
                             l \in DOMAIN left.rows }
        out(p)    == <<key(left, p[1])>> \o Without(left.cols, p[1], name)
                     \o (IF p[2] = <<>> THEN nulls
                         ELSE Without(right.cols, p[2], name))
        weight    == [ p \in pairs |->
                         left.rows[p[1]] * (IF p[2] = <<>> THEN 1 ELSE right.rows[p[2]]) ]
    IN  [ cols |-> <<name>> \o rest(left) \o rest(right),
          rows |-> [ o \in { out(p) : p \in pairs } |->
                       SumOf(weight, { p \in pairs : out(p) = o }) ] ]

\* DataFrame.na.fill(value, subset=[name]) resolves name against the frame
na_fill_ambiguous(f, name) == Cardinality(Positions(f.cols, name)) > 1

\* the join without the fill after it
na_fill_skipped(f, value, name) == f

na_fill(f, value, name) ==
    [ cols |-> f.cols,
      rows |-> BagMap([ r \in DOMAIN f.rows |->
                          [ i \in 1 .. Len(r) |->
                              IF f.cols[i] = name /\ r[i] = None
                              THEN Some(value) ELSE r[i] ] ],
                      f.rows) ]

----------------------------------------------------------------------------
(* The labellers *)

\* the weekend taken in the Monday = 1 indexing
label_weekend_iso(f, colname, new_colname) ==
    withColumn(f, new_colname,
               [ r \in DOMAIN f.rows |->
                   isin(dayofweek(Cell(f, r, colname)), { 6, 7 }) ])

label_weekend(f, colname, new_colname) ==
    withColumn(f, new_colname,
               [ r \in DOMAIN f.rows |->
                   isin(dayofweek(Cell(f, r, colname)), { 1, 7 }) ])

\* the udf calls is_belgian_holiday on the cell of every row
holiday_udf(c) == Some(is_belgian_holiday(c[1]))

label_holidays(f, colname, new_colname) ==
    withColumn(f, new_colname,
               [ r \in DOMAIN f.rows |-> holiday_udf(Cell(f, r, colname)) ])

label_holidays2(f, colname, new_colname) ==
    withColumn(f, new_colname,
               [ r \in DOMAIN f.rows |-> isin(Cell(f, r, colname), holidays_be) ])

holidays_frame(colname, new_colname) ==
    [ cols |-> <<colname, new_colname>>,
      rows |-> SetToBag({ <<Some(day), Some(TRUE)>> : day \in holidays_be }) ]

label_holidays3(f, colname, new_colname) ==
    na_fill(join_left(f, holidays_frame(colname, new_colname), colname),
            FALSE, new_colname)

----------------------------------------------------------------------------
(* Inputs *)

DateUniverse ==
    { date(2018, 1, 3),  date(2018, 1, 6),   date(2018, 1, 7),
      date(2018, 4, 2),  date(2018, 7, 21),  date(2019, 12, 25),
      date(2015, 1, 1),  date(2014, 12, 25), date(2020, 1, 1),
      date(2020, 1, 4) }

Schemas == { <<"date">>, <<"id", "date">>, <<"date", "id">> }

CellsOf(name) ==
    IF name = "date" THEN { Some(d) : d \in DateUniverse } \cup { None }
    ELSE { Some(i) : i \in 1 .. MaxId }

RowsOf(cols) ==
    { r \in [ 1 .. Len(cols) -> UNION { CellsOf(cols[i]) : i \in 1 .. Len(cols) } ] :
        \A i \in 1 .. Len(cols) : r[i] \in CellsOf(cols[i]) }

SeqToBag(s) ==
    [ x \in { s[i] : i \in DOMAIN s } |-> Cardinality({ i \in DOMAIN s : s[i] = x }) ]

Frames ==
    UNION { { [ cols |-> cols, rows |-> SeqToBag(s) ] :
                s \in UNION { [ 1 .. n -> RowsOf(cols) ] : n \in 0 .. MaxRows } } :
            cols \in Schemas }

NoFrame == [ cols |-> <<"date">>, rows |-> EmptyBag ]

----------------------------------------------------------------------------
(* State machine *)

InitRanges ==
    /\ start1 \in Bounds /\ stop1 \in Bounds
    /\ start2 \in Bounds /\ stop2 \in Bounds
    /\ overlaps = None /\ mirrored = None /\ evaluated = {}
    /\ frame = NoFrame /\ labelled = <<>> /\ calls = <<>> /\ raised = "none"

InitLabellers ==
    /\ start1 = None /\ stop1 = None /\ start2 = None /\ stop2 = None
    /\ overlaps = None /\ mirrored = None /\ evaluated = {}
    /\ frame \in Frames
    /\ labelled = <<>> /\ calls = <<>> /\ raised = "none"

\* ranges_overlap(a.start, a.stop, b.start, b.stop)
RangesOverlap ==
    /\ "ab" \notin evaluated
    /\ overlaps' = ranges_overlap(start1, stop1, start2, stop2)
    /\ evaluated' = evaluated \cup { "ab" }
    /\ UNCHANGED <<start1, stop1, start2, stop2, mirrored>>
    /\ UNCHANGED labelVars

\* ranges_overlap(b.start, b.stop, a.start, a.stop)
RangesOverlapMirrored ==
    /\ "ba" \notin evaluated
    /\ mirrored' = ranges_overlap(start2, stop2, start1, stop1)
    /\ evaluated' = evaluated \cup { "ba" }
    /\ UNCHANGED <<start1, stop1, start2, stop2, overlaps>>
    /\ UNCHANGED labelVars

\* the frame the next labeller is applied to
Current == IF labelled = <<>> THEN frame ELSE labelled[Len(labelled)]

CanCall == raised = "none" /\ Len(calls) < MaxCalls

Returns(name, f) ==
    /\ calls' = Append(calls, name)
    /\ labelled' = Append(labelled, f)
    /\ UNCHANGED <<frame, raised>>
    /\ UNCHANGED rangeVars

Raises(name, error) ==
    /\ calls' = Append(calls, name)
    /\ raised' = error
    /\ UNCHANGED <<frame, labelled>>
    /\ UNCHANGED rangeVars

LabelWeekend ==
    /\ CanCall
    /\ Returns("label_weekend", label_weekend(Current, "date", "is_weekend"))

\* is_belgian_holiday(None) : `None in holidays.BE()` raises TypeError
LabelHolidays ==
    /\ CanCall
    /\ IF \E r \in DOMAIN Current.rows : Cell(Current, r, "date") = None
       THEN Raises("label_holidays", "TypeError")
       ELSE Returns("label_holidays",
                    label_holidays(Current, "date", "is_belgian_holiday"))

LabelHolidays2 ==
    /\ CanCall
    /\ Returns("label_holidays2",
               label_holidays2(Current, "date", "is_belgian_holiday"))

\* na.fill on a frame with two columns called new_colname raises
\* AnalysisException (the reference is ambiguous)
LabelHolidays3 ==
    /\ CanCall
    /\ IF na_fill_ambiguous(join_left(Current,
                                      holidays_frame("date", "is_belgian_holiday"),
                                      "date"),
                            "is_belgian_holiday")
       THEN Raises("label_holidays3", "AnalysisException")
       ELSE Returns("label_holidays3",
                    label_holidays3(Current, "date", "is_belgian_holiday"))

NextRanges == RangesOverlap \/ RangesOverlapMirrored

NextLabellers == LabelWeekend \/ LabelHolidays \/ LabelHolidays2 \/ LabelHolidays3

SpecRanges == InitRanges /\ [][NextRanges]_vars

SpecLabellers == InitLabellers /\ [][NextLabellers]_vars

----------------------------------------------------------------------------
(* Properties of ranges_overlap, checked under SpecRanges *)

Called == "ab" \in evaluated

AllPresent == start1 # None /\ stop1 # None /\ start2 # None /\ stop2 # None

\* C1: when all four bounds are present, ranges_overlap returns exactly
\* start1 <= stop2 AND start2 <= stop1, also when start > stop inside an
\* interval.
C1_FiniteIntersection ==
    (Called /\ AllPresent) =>
        overlaps = Some(start1[1] <= stop2[1] /\ start2[1] <= stop1[1])

C1_Witness ==
    /\ Called /\ AllPresent
    /\ start1[1] > stop1[1]
    /\ start1[1] = stop2[1]
    /\ overlaps = Some(TRUE)

\* C2: ranges_overlap is symmetric in its two intervals, whichever bounds
\* are absent: the call with the intervals exchanged returns the same value.
C2_Symmetric ==
    (evaluated = { "ab", "ba" }) => overlaps = mirrored

C2_Witness ==
    /\ evaluated = { "ab", "ba" }
    /\ start1 = None /\ stop2 = None
    /\ overlaps = Some(FALSE) /\ mirrored = Some(FALSE)

\* the rows of the truth table of the specification, with their results
SpecTable ==
    { <<Some(0), Some(5), Some(-5), Some(-1), FALSE>>,
      <<Some(0), Some(5), Some(-5), Some(2),  TRUE>>,
      <<Some(0), Some(5), Some(1),  Some(7),  TRUE>>,
      <<Some(0), Some(5), Some(6),  Some(7),  FALSE>>,
      <<Some(0), Some(5), Some(-5), None,     TRUE>>,
      <<Some(0), None,    Some(-5), Some(-1), FALSE>>,
      <<Some(0), None,    Some(5),  Some(10), TRUE>> }

\* C3: ranges_overlap reproduces the truth table: (0,5,-5,-1) -> false,
\* (0,5,-5,2) -> true, (0,5,1,7) -> true, (0,5,6,7) -> false,
\* (0,5,-5,None) -> true, (0,None,-5,-1) -> false, (0,None,5,10) -> true.
C3_TruthTable ==
    Called =>
        \A t \in SpecTable :
            (start1 = t[1] /\ stop1 = t[2] /\ start2 = t[3] /\ stop2 = t[4])
                => overlaps = Some(t[5])

C3_Witness ==
    /\ Called
    /\ start1 = Some(0) /\ stop1 = Some(5) /\ start2 = Some(-5) /\ stop2 = None
    /\ overlaps = Some(TRUE)

\* an absent start is minus infinity, an absent stop is plus infinity
StartsBeforeStop(start, stop) == start = None \/ stop = None \/ start[1] <= stop[1]

ProvenApart ==
    \/ start1 # None /\ stop2 # None /\ start1[1] > stop2[1]
    \/ stop1 # None /\ start2 # None /\ stop1[1] < start2[1]

\* C10: for every combination of present and absent bounds, ranges_overlap
\* returns false exactly when a pair of present bounds proves the intervals
\* apart (start1 > stop2, or stop1 < start2) and true otherwise, which is the
\* overlap test with an absent start as minus infinity and an absent stop as
\* plus infinity.
C10_OpenEnded ==
    Called =>
        /\ overlaps = Some(~ProvenApart)
        /\ overlaps = Some(StartsBeforeStop(start1, stop2)
                           /\ StartsBeforeStop(start2, stop1))

C10_Witness ==
    /\ Called
    /\ start1 = None /\ stop1 # None /\ start2 # None /\ stop2 # None
    /\ stop1[1] < start2[1]
    /\ overlaps = Some(FALSE)

----------------------------------------------------------------------------
(* Properties of the labellers, checked under SpecLabellers *)

HolidayLabellers == { "label_holidays", "label_holidays2", "label_holidays3" }

\* new_colname of a labeller
OutAttr(name) == IF name = "label_weekend" THEN "is_weekend" ELSE "is_belgian_holiday"

\* the frame the i-th call was applied to
Argument(i) == IF i = 1 THEN frame ELSE labelled[i - 1]

\* the calls that returned a frame
Returned == 1 .. Len(labelled)

\* a date outside the years 2015 to 2019 the bounded strategies cover
OutOfRange(c) == c # None /\ (year(c[1]) < 2015 \/ year(c[1]) > 2019)

DatesInRange(f) ==
    \A r \in DOMAIN f.rows : ~OutOfRange(Cell(f, r, "date"))

\* the (date, is_holiday) pairs of a labelled frame
HolidayPairs(f) ==
    BagMap([ r \in DOMAIN f.rows |->
               <<Cell(f, r, "date"), Cell(f, r, "is_belgian_holiday")>> ],
           f.rows)

\* C4 (as claimed): on a row set whose non-null dates all lie in the year
\* range, the holiday labellers that return a frame return the same
\* (date, is_holiday) pairs: the frame a first call returned has the pairs
\* label_holidays2 and label_holidays3 give for the same input.
C4_StrategiesAgree ==
    (Len(calls) = 1 /\ Len(labelled) = 1 /\ calls[1] \in HolidayLabellers
        /\ DatesInRange(frame)) =>
        /\ HolidayPairs(labelled[1])
             = HolidayPairs(label_holidays2(frame, "date", "is_belgian_holiday"))
        /\ HolidayPairs(labelled[1])
             = HolidayPairs(label_holidays3(frame, "date", "is_belgian_holiday"))

\* C5 (as claimed): a bounded strategy applied to a frame with a date outside
\* the year range reports DateOutOfRangeError.
C5_OutOfRangeError ==
    (Len(calls) >= 1
        /\ calls[Len(calls)] \in { "label_holidays2", "label_holidays3" }
        /\ ~DatesInRange(Argument(Len(calls))))
        => raised = "DateOutOfRangeError"

\* C5 (amended): a bounded strategy reports no DateOutOfRangeError; in every
\* frame it returns, a row whose date is outside the year range is labelled
\* false.
C5_OutOfRangeFalse ==
    /\ raised # "DateOutOfRangeError"
    /\ \A i \in Returned :
        calls[i] \in { "label_holidays2", "label_holidays3" } =>
            \A r \in DOMAIN labelled[i].rows :
                OutOfRange(Cell(labelled[i], r, "date")) =>
                    Cell(labelled[i], r, "is_belgian_holiday") = Some(FALSE)

C5_Witness ==
    /\ calls = <<"label_holidays3">> /\ raised = "none" /\ Len(labelled) = 1
    /\ \E r \in DOMAIN labelled[1].rows :
        /\ Cell(labelled[1], r, "date") = Some(date(2020, 1, 1))
        /\ Cell(labelled[1], r, "is_belgian_holiday") = Some(FALSE)

\* C6 (as claimed): applying the same labeller a second time overwrites the
\* output attribute: the second call returns a frame with exactly one
\* attribute of that name and the attributes and values of the first result.
C6_RelabelOverwrites ==
    (Len(calls) = 2 /\ calls[1] = calls[2]) =>
        /\ raised = "none"
        /\ Len(labelled) = 2
        /\ Cardinality(Positions(labelled[2].cols, OutAttr(calls[2]))) = 1
        /\ labelled[2] = labelled[1]

\* C7: in every frame label_holidays3 returns, the holiday attribute of every
\* row is true or false, and it is false for a row whose date is absent or
\* matches no day of the holiday frame.
C7_JoinFillsFalse ==
    \A i \in Returned :
        calls[i] = "label_holidays3" =>
            \A r \in DOMAIN labelled[i].rows :
                LET d == Cell(labelled[i], r, "date")
                    h == Cell(labelled[i], r, "is_belgian_holiday")
                IN  /\ h \in { Some(TRUE), Some(FALSE) }
                    /\ (d = None \/ d[1] \notin holidays_be) => h = Some(FALSE)

C7_Witness ==
    /\ calls = <<"label_holidays3">> /\ Len(labelled) = 1
    /\ \E r \in DOMAIN labelled[1].rows :
        /\ Cell(labelled[1], r, "date") = None
        /\ Cell(labelled[1], r, "is_belgian_holiday") = Some(FALSE)
    /\ \E r \in DOMAIN labelled[1].rows :
        Cell(labelled[1], r, "is_belgian_holiday") = Some(TRUE)

\* C8 (as claimed): a labeller applied to a frame without the output
\* attribute returns the input with one boolean attribute added: the new
\* attribute last, every original attribute at its position with its value,
\* the same rows with the same multiplicity.
C8_AppendsOneAttribute ==
    (Len(calls) = 1 /\ Len(labelled) = 1) =>
        /\ labelled[1].cols = Append(frame.cols, OutAttr(calls[1]))
        /\ BagMap([ r \in DOMAIN labelled[1].rows |-> SubSeq(r, 1, Len(frame.cols)) ],
                  labelled[1].rows)
             = frame.rows
        /\ \A r \in DOMAIN labelled[1].rows :
             /\ Len(r) = Len(frame.cols) + 1
             /\ r[Len(r)] \in { Some(TRUE), Some(FALSE), None }

KnownSunday == date(2018, 1, 7)

IsSunday(d) == (d - KnownSunday) % 7 = 0

IsSaturday(d) == (d - KnownSunday) % 7 = 6

\* C9: in every frame label_weekend returns, is_weekend is true exactly for
\* the rows whose date is a Sunday (day-of-week 1) or a Saturday (day-of-week
\* 7); the Saturday 2018-01-06 is labelled true, the Wednesday 2018-01-03
\* false.
C9_WeekendIffSundayOrSaturday ==
    \A i \in Returned :
        calls[i] = "label_weekend" =>
            \A r \in DOMAIN labelled[i].rows :
                LET d == Cell(labelled[i], r, "date")
                    w == Cell(labelled[i], r, "is_weekend")
                IN  /\ (w = Some(TRUE)) <=>
                          (d # None /\ (IsSunday(d[1]) \/ IsSaturday(d[1])))
                    /\ d # None =>
                          /\ (dayofweek(d) = Some(1)) <=> IsSunday(d[1])
                          /\ (dayofweek(d) = Some(7)) <=> IsSaturday(d[1])
                          /\ w # None
                    /\ d = Some(date(2018, 1, 6)) => w = Some(TRUE)
                    /\ d = Some(date(2018, 1, 3)) => w = Some(FALSE)

C9_Witness ==
    /\ calls = <<"label_weekend">> /\ Len(labelled) = 1
    /\ \E r \in DOMAIN labelled[1].rows :
        /\ Cell(labelled[1], r, "date") = Some(date(2018, 1, 6))
        /\ Cell(labelled[1], r, "is_weekend") = Some(TRUE)
    /\ \E r \in DOMAIN labelled[1].rows :
        /\ Cell(labelled[1], r, "date") = Some(date(2018, 1, 3))
        /\ Cell(labelled[1], r, "is_weekend") = Some(FALSE)

====
